---- MODULE Spec2Model ----
(***************************************************************************)
(* Model of the google-ads-api client library: the module-level TTL        *)
(* service cache and Service.loadService (src/src/service.ts), the error   *)
(* translator and request builder of the same file, and the service        *)
(* account flow of Client (src/unnamed/part_000).                          *)
(*                                                                         *)
(* Time is counted in minutes.  A setTimeout callback of the cache runs    *)
(* when the clock reaches the expiration it was armed for; a delay of some *)
(* milliseconds is below the granularity of the clock.                     *)
(***************************************************************************)
EXTENDS Integers, Sequences, FiniteSets, TLC

VARIABLES
  now,           \* the clock, in minutes
  serviceCache,  \* the module-level TTLCache: service name -> entry
  stubs,         \* every service client ever constructed, by identity
  calls,         \* remote calls in flight: caller -> stub it holds (0: none)
  lastLoad,      \* outcome of the most recent loadService call
  clientState,   \* Client: "unconstructed", "constructed", or "threw"
  options,       \* Client.options.service_account_key ("" when not given)
  accessToken,   \* Client.accessToken
  exchange,      \* the promise of exchangeJWTForAccessToken
  posts,         \* token-endpoint POSTs started
  failures,      \* credential-setup failures that have happened
  raised,        \* errors thrown to the code that constructed the Client
  unhandled,     \* rejections of a promise nobody awaits or catches
  tokenExpired,  \* the issued access token has outlived its hour
  listCalls,     \* listAccessibleCustomers calls: caller -> state, token used
  input,         \* argument of the pure operation under examination
  output         \* its outcome

cacheVars == <<now, serviceCache, stubs, calls, lastLoad>>
clientVars == <<clientState, options, accessToken, exchange, posts, failures,
                raised, unhandled, tokenExpired, listCalls>>
pureVars == <<input, output>>
vars == <<cacheVars, clientVars, pureVars>>

----------------------------------------------------------------------------
(* Bounds *)
MaxTime == 10
MaxStubs == 2
MaxBufLen == 2
MaxDetails == 2
MaxKeys == 1
MaxEntities == 2
MaxMutations == 1

(* Program constants *)
TTL == 10
Max == 1000

ServiceNames == {"GoogleAdsServiceClient", "CustomerServiceClient"}
UnknownNames == {"NoSuchServiceClient"}
Instances == {"svcA", "svcB"}
Callers == {"call1", "call2"}

----------------------------------------------------------------------------
(* Service: the options a Service instance was constructed with *)
clientOptions ==
  [svcA |-> [client_id |-> "cid", client_secret |-> "sec",
             service_account_key_file |-> ""],
   svcB |-> [client_id |-> "cid", client_secret |-> "sec",
             service_account_key_file |-> "sa.json"]]

customerOptions ==
  [svcA |-> [customer_id |-> "111", refresh_token |-> "rtA"],
   svcB |-> [customer_id |-> "222", refresh_token |-> "rtB"]]

keyFiles ==
  [f \in {"sa.json"} |-> [client_email |-> "sa@project", private_key |-> "pk"]]

getCredentials(s) ==
  IF clientOptions[s].service_account_key_file # ""
  THEN LET keyFile == keyFiles[clientOptions[s].service_account_key_file]
       IN [auth |-> "JWT", id |-> keyFile.client_email, key |-> keyFile.private_key]
  ELSE [auth |-> "UserRefreshClient", id |-> clientOptions[s].client_id,
        key |-> customerOptions[s].refresh_token]

----------------------------------------------------------------------------
(* TTLCache<ServiceName, GoogleAdsServiceClient> *)
NoEntry == [present |-> FALSE, value |-> 0, exp |-> 0]

has(cache, key) == key \in DOMAIN cache /\ cache[key].present

get(cache, key) == cache[key].value

size(cache) == Cardinality({k \in DOMAIN cache : cache[k].present})

\* dispose: (service) => service.close(), once for each disposed value
dispose(st, disposed) ==
  [i \in DOMAIN st |->
     IF i \in disposed THEN [st[i] EXCEPT !.closeCalls = @ + 1] ELSE st[i]]

\* the timer callback: drop every entry whose expiration has been reached
purgeStale(cache, t) ==
  LET stale == {k \in DOMAIN cache : cache[k].present /\ cache[k].exp <= t}
  IN [cache |-> [k \in DOMAIN cache |-> IF k \in stale THEN NoEntry ELSE cache[k]],
      disposed |-> {cache[k].value : k \in stale}]

RECURSIVE purgeToCapacity(_, _)
purgeToCapacity(cache, max) ==
  IF size(cache) <= max
  THEN [cache |-> cache, disposed |-> {}]
  ELSE LET live == {k \in DOMAIN cache : cache[k].present}
           oldest == CHOOSE k \in live : \A j \in live : cache[k].exp <= cache[j].exp
           rest == purgeToCapacity([cache EXCEPT ![oldest] = NoEntry], max)
       IN [cache |-> rest.cache, disposed |-> rest.disposed \cup {cache[oldest].value}]

set(cache, key, val, t) ==
  LET replaced == IF cache[key].present /\ cache[key].value # val
                  THEN {cache[key].value} ELSE {}
      stored == [cache EXCEPT ![key] = [present |-> TRUE, value |-> val, exp |-> t + TTL]]
      purged == purgeToCapacity(stored, Max)
  IN [cache |-> purged.cache, disposed |-> replaced \cup purged.disposed]

----------------------------------------------------------------------------
(* Service.loadService *)
loadService_alwaysConstruct(s, service) ==
  IF service \notin ServiceNames
  THEN [threw |-> TRUE, stub |-> 0, cache |-> serviceCache, stubs |-> stubs]
  ELSE LET client == Len(stubs) + 1
           made == Append(stubs, [name |-> service, creds |-> getCredentials(s),
                                  created |-> now, closeCalls |-> 0])
           stored == set(serviceCache, service, client, now)
       IN [threw |-> FALSE, stub |-> client, cache |-> stored.cache,
           stubs |-> dispose(made, stored.disposed)]

loadService(s, service) ==
  IF has(serviceCache, service)
  THEN [threw |-> FALSE, stub |-> get(serviceCache, service),
        cache |-> serviceCache, stubs |-> stubs]
  ELSE IF service \notin ServiceNames
  THEN [threw |-> TRUE, stub |-> 0, cache |-> serviceCache, stubs |-> stubs]
  ELSE LET client == Len(stubs) + 1
           made == Append(stubs, [name |-> service, creds |-> getCredentials(s),
                                  created |-> now, closeCalls |-> 0])
           stored == set(serviceCache, service, client, now)
       IN [threw |-> FALSE, stub |-> client, cache |-> stored.cache,
           stubs |-> dispose(made, stored.disposed)]

NoLoad == [by |-> "", name |-> "", threw |-> FALSE, stub |-> 0, at |-> 0,
           closedAtReturn |-> FALSE]

CacheIdle ==
  /\ now = 0
  /\ serviceCache = [k \in ServiceNames |-> NoEntry]
  /\ stubs = <<>>
  /\ calls = [c \in Callers |-> 0]
  /\ lastLoad = NoLoad

ClientIdle ==
  /\ clientState = "unconstructed"
  /\ options = ""
  /\ accessToken = "null"
  /\ exchange = "none"
  /\ posts = 0
  /\ failures = {}
  /\ raised = {}
  /\ unhandled = {}
  /\ tokenExpired = FALSE
  /\ listCalls = [c \in Callers |->
                    [state |-> "idle", refresh_token |-> "", used |-> "none"]]

NoValue == [fn |-> "none"]

PureIdle ==
  /\ input = NoValue
  /\ output = NoValue

InitCache == CacheIdle /\ ClientIdle /\ PureIdle

\* a facade operation of instance s: loadService, then the remote call on the
\* returned stub is in flight until Complete
Invoke(c, s, service) ==
  /\ calls[c] = 0
  /\ LET r == loadService(s, service)
     IN /\ Len(r.stubs) <= MaxStubs
        /\ serviceCache' = r.cache
        /\ stubs' = r.stubs
        /\ calls' = [calls EXCEPT ![c] = r.stub]
        /\ lastLoad' = [by |-> s, name |-> service, threw |-> r.threw,
                        stub |-> r.stub, at |-> now,
                        closedAtReturn |-> IF r.threw THEN FALSE
                                           ELSE r.stubs[r.stub].closeCalls > 0]
  /\ UNCHANGED <<now, clientVars, pureVars>>

Complete(c) ==
  /\ calls[c] # 0
  /\ calls' = [calls EXCEPT ![c] = 0]
  /\ UNCHANGED <<now, serviceCache, stubs, lastLoad, clientVars, pureVars>>

\* a minute passes; the cache's timer fires for the entries now due
Tick ==
  /\ now < MaxTime
  /\ now' = now + 1
  /\ LET p == purgeStale(serviceCache, now + 1)
     IN /\ serviceCache' = p.cache
        /\ stubs' = dispose(stubs, p.disposed)
  /\ UNCHANGED <<calls, lastLoad, clientVars, pureVars>>

NextCache ==
  \/ \E c \in Callers, s \in Instances, n \in ServiceNames \cup UnknownNames :
        Invoke(c, s, n)
  \/ \E c \in Callers : Complete(c)
  \/ Tick

SpecCache == InitCache /\ [][NextCache]_vars

----------------------------------------------------------------------------
(* Properties of the service cache *)

Expired(i) == now >= stubs[i].created + TTL

\* C1: every loadService call made within the TTL window of an entry returns
\* that entry's stub (a returned stub is returned inside its own window, and
\* the windows of two stubs of one service name never overlap, so a call
\* after the expiry returns a newly constructed one); a stub has received no
\* close() call before its expiry and exactly one from then on.
C1_SameStubWithinTTLThenClosedOnce ==
  /\ (lastLoad.stub # 0) =>
        /\ stubs[lastLoad.stub].name = lastLoad.name
        /\ stubs[lastLoad.stub].created <= lastLoad.at
        /\ lastLoad.at < stubs[lastLoad.stub].created + TTL
  /\ \A i, j \in DOMAIN stubs :
        (i < j /\ stubs[i].name = stubs[j].name)
           => stubs[j].created >= stubs[i].created + TTL
  /\ \A i \in DOMAIN stubs :
        stubs[i].closeCalls = IF Expired(i) THEN 1 ELSE 0

C1_Witness ==
  \E i, j \in DOMAIN stubs :
     /\ i < j
     /\ stubs[i].name = stubs[j].name
     /\ stubs[i].closeCalls = 1
     /\ lastLoad.stub = j
     /\ lastLoad.at >= stubs[i].created + TTL

\* C2: close() never runs on a stub while an in-flight call that obtained it
\* from loadService still holds it, and loadService never returns a stub
\* that has already been closed.
C2_NoCloseWhileInUse ==
  /\ \A c \in Callers : calls[c] # 0 => stubs[calls[c]].closeCalls = 0
  /\ ~lastLoad.closedAtReturn

\* C10: every stub loadService returns to a Service instance was constructed
\* with that instance's own credentials.
C10_StubBoundToOwnCredentials ==
  (lastLoad.stub # 0) => stubs[lastLoad.stub].creds = getCredentials(lastLoad.by)

----------------------------------------------------------------------------
(* Client: the service-account flow *)

RefreshTokens == {"rtA", "rtB"}

\* the key documents a Client is constructed with
KeyDocuments == {"", "{not json", "{no private_key}", "{service account}"}

\* JSON.parse of the key document
JSONparse(text) ==
  IF text = "{service account}"
  THEN [threw |-> FALSE,
        value |-> [client_email |-> "sa@project", private_key |-> "pk"]]
  ELSE IF text = "{no private_key}"
  THEN [threw |-> FALSE,
        value |-> [client_email |-> "sa@project", private_key |-> ""]]
  ELSE [threw |-> TRUE, value |-> [client_email |-> "", private_key |-> ""]]

\* Client.generateJWT: jwt.sign throws without a usable private key
generateJWT(serviceAccountKey) ==
  IF serviceAccountKey.private_key = ""
  THEN [threw |-> TRUE, token |-> ""]
  ELSE [threw |-> FALSE,
        token |-> [iss |-> serviceAccountKey.client_email,
                   sub |-> serviceAccountKey.client_email,
                   aud |-> "https://oauth2.googleapis.com/token",
                   lifetime |-> 3600,
                   scope |-> "https://www.googleapis.com/auth/adwords"]]

\* Client.initializeServiceAccountFlow, up to the first await: the error it
\* throws ("" when none) and whether the token exchange has been started
initializeServiceAccountFlow_exchangeFirst(key) ==
  [threw |-> IF JSONparse(key).threw THEN "malformed_key"
             ELSE IF generateJWT(JSONparse(key).value).threw THEN "signing"
             ELSE "",
   posted |-> TRUE]

initializeServiceAccountFlow(key) ==
  LET parsed == JSONparse(key)
  IN IF parsed.threw
     THEN [threw |-> "malformed_key", posted |-> FALSE]
     ELSE LET jwtToken == generateJWT(parsed.value)
          IN IF jwtToken.threw
             THEN [threw |-> "signing", posted |-> FALSE]
             ELSE [threw |-> "", posted |-> TRUE]

InitClient == CacheIdle /\ ClientIdle /\ PureIdle

\* new Client(options)
Construct(key) ==
  /\ clientState = "unconstructed"
  /\ options' = key
  /\ IF key = ""
     THEN /\ clientState' = "constructed"
          /\ UNCHANGED <<exchange, posts, failures, raised>>
     ELSE LET flow == initializeServiceAccountFlow(key)
          IN /\ clientState' = IF flow.threw = "" THEN "constructed" ELSE "threw"
             /\ failures' = IF flow.threw = "" THEN failures
                            ELSE failures \cup {flow.threw}
             /\ raised' = IF flow.threw = "" THEN raised
                          ELSE raised \cup {flow.threw}
             /\ posts' = IF flow.posted THEN posts + 1 ELSE posts
             /\ exchange' = IF flow.posted THEN "pending" ELSE exchange
  /\ UNCHANGED <<accessToken, unhandled, tokenExpired, listCalls, cacheVars, pureVars>>

\* exchangeJWTForAccessToken after the await: the endpoint answered with a token
ExchangeResolve ==
  /\ exchange = "pending"
  /\ exchange' = "resolved"
  /\ accessToken' = "access_token"
  /\ UNCHANGED <<clientState, options, posts, failures, raised, unhandled,
                 tokenExpired, listCalls, cacheVars, pureVars>>

\* exchangeJWTForAccessToken after the await: the POST failed; the catch block
\* logs and rethrows, which rejects a promise the constructor never kept
ExchangeReject ==
  /\ exchange = "pending"
  /\ exchange' = "rejected"
  /\ failures' = failures \cup {"token_exchange"}
  /\ unhandled' = unhandled \cup {"token_exchange"}
  /\ UNCHANGED <<clientState, options, accessToken, posts, raised,
                 tokenExpired, listCalls, cacheVars, pureVars>>

\* the hour the token was issued for is over
TokenExpires ==
  /\ exchange = "resolved"
  /\ ~tokenExpired
  /\ tokenExpired' = TRUE
  /\ UNCHANGED <<clientState, options, accessToken, exchange, posts, failures,
                 raised, unhandled, listCalls, cacheVars, pureVars>>

\* Client.listAccessibleCustomers up to its remote call: a Service is made for
\* the refresh token, and this.accessToken is handed to it as it is at that
\* moment
ListAccessibleCustomers(c, refreshToken) ==
  /\ clientState = "constructed"
  /\ listCalls[c].state = "idle"
  /\ listCalls' = [listCalls EXCEPT ![c] =
        [state |-> "inflight",
         refresh_token |-> refreshToken,
         used |-> IF accessToken = "null" THEN "null"
                  ELSE IF tokenExpired THEN "expired" ELSE "valid"]]
  /\ UNCHANGED <<clientState, options, accessToken, exchange, posts, failures,
                 raised, unhandled, tokenExpired, cacheVars, pureVars>>

\* the remote call of listAccessibleCustomers returns
ListReturns(c) ==
  /\ listCalls[c].state = "inflight"
  /\ listCalls' = [listCalls EXCEPT ![c].state = "idle"]
  /\ UNCHANGED <<clientState, options, accessToken, exchange, posts, failures,
                 raised, unhandled, tokenExpired, cacheVars, pureVars>>

NextClient ==
  \/ \E key \in KeyDocuments : Construct(key)
  \/ ExchangeResolve
  \/ ExchangeReject
  \/ TokenExpires
  \/ \E c \in Callers, rt \in RefreshTokens : ListAccessibleCustomers(c, rt)
  \/ \E c \in Callers : ListReturns(c)

SpecClient == InitClient /\ [][NextClient]_vars

----------------------------------------------------------------------------
(* Properties of the service-account flow *)

\* C3: on the service-account path every failure of credential setup
\* (malformed key, signing failure, failed token exchange) is raised to the
\* caller of the Client.
C3_SetupFailuresSurfaced == failures \subseteq raised

\* C7: a Client constructed with a malformed key document raises an
\* authentication-configuration error, and no token-endpoint POST is ever
\* started for that construction.
C7_MalformedKeyFailsBeforeNetwork ==
  (clientState # "unconstructed" /\ options # "" /\ JSONparse(options).threw)
     => /\ clientState = "threw"
        /\ "malformed_key" \in raised
        /\ posts = 0
        /\ exchange = "none"

C7_Witness ==
  /\ clientState = "threw"
  /\ options = "{not json"
  /\ "malformed_key" \in failures

\* C9: on a service-account Client the token exchange is started at most
\* once while the token is unexpired, and every listAccessibleCustomers call
\* uses a valid access token: the exchange has completed before the call,
\* and an expired token has been refreshed before the next call.
C9_SingleExchangeAndValidToken ==
  (options # "") =>
     /\ posts <= 1
     /\ \A c \in Callers : listCalls[c].used \in {"none", "valid"}

----------------------------------------------------------------------------
(* Error translator *)

FAILURE_KEY == "google.ads.googleads.version.errors.googleadsfailure-bin"
MetadataKeys == {FAILURE_KEY, "grpc-status-details-bin"}

SeqsUpTo(S, n) == UNION {[1..m -> S] : m \in 0..n}

\* An encoded GoogleAdsFailure is a sequence of fields, one byte each:
\* 1 and 2 are sub-errors of two kinds, 0 is a byte no field starts with.
Bytes == {0, 1, 2}
Buffers == SeqsUpTo(Bytes, MaxBufLen)

ErrorOf(byte) ==
  IF byte = 1
  THEN [error_code |-> "authentication_error", message |-> "not authorised"]
  ELSE [error_code |-> "policy_finding_error", message |-> "policy finding"]

SubErrors == {ErrorOf(1), ErrorOf(2)}

ByteOf(err) == IF err.error_code = "authentication_error" THEN 1 ELSE 2

\* the wire form of a failure with the given sub-errors
EncodeFailure(errs) == [i \in 1..Len(errs) |-> ByteOf(errs[i])]

\* Service.decodeGoogleAdsFailureBuffer: errors.GoogleAdsFailure.decode
decodeGoogleAdsFailureBuffer(buffer) ==
  IF \E i \in 1..Len(buffer) : buffer[i] = 0
  THEN [threw |-> TRUE, errors |-> <<>>]
  ELSE [threw |-> FALSE, errors |-> [i \in 1..Len(buffer) |-> ErrorOf(buffer[i])]]

\* a transport error: metadata may be missing, may lack internalRepr, and
\* internalRepr maps the keys it has to buffers
NoMetadata == [present |-> FALSE, hasInternalRepr |-> FALSE, keys |-> {}, failure |-> <<>>]

Metadatas ==
  {NoMetadata}
  \cup {[present |-> TRUE, hasInternalRepr |-> FALSE, keys |-> {}, failure |-> <<>>]}
  \cup {[present |-> TRUE, hasInternalRepr |-> TRUE, keys |-> ks, failure |-> <<>>] :
          ks \in SUBSET (MetadataKeys \ {FAILURE_KEY})}
  \cup {[present |-> TRUE, hasInternalRepr |-> TRUE, keys |-> ks \cup {FAILURE_KEY},
         failure |-> b] :
          ks \in SUBSET (MetadataKeys \ {FAILURE_KEY}), b \in Buffers}

TransportErrors == {[message |-> "14 UNAVAILABLE", metadata |-> m] : m \in Metadatas}

NoFailure == [errors |-> <<>>]

\* Service.getGoogleAdsError
getGoogleAdsError(error) ==
  IF ~error.metadata.present
  THEN [kind |-> "returned_error", error |-> error, failure |-> NoFailure]
  ELSE IF ~error.metadata.hasInternalRepr
  THEN [kind |-> "threw_TypeError", error |-> error, failure |-> NoFailure]
  ELSE IF FAILURE_KEY \notin error.metadata.keys
  THEN [kind |-> "returned_error", error |-> error, failure |-> NoFailure]
  ELSE LET decoded == decodeGoogleAdsFailureBuffer(error.metadata.failure)
       IN IF decoded.threw
          THEN [kind |-> "threw_decode", error |-> error, failure |-> NoFailure]
          ELSE [kind |-> "returned_failure", error |-> error,
                failure |-> [errors |-> decoded.errors]]

\* String.prototype.includes, on strings held as sequences of pieces
includes(str, needle) ==
  \E i \in 1..(Len(str) - Len(needle) + 1) :
     SubSeq(str, i, i + Len(needle) - 1) = needle

FailureTypeNeedle == <<"errors.GoogleAdsFailure">>

TypeUrls ==
  {<<"type.googleapis.com/", "google.ads.googleads.version.", "errors.GoogleAdsFailure">>,
   <<"type.googleapis.com/", "google.rpc.", "ErrorInfo">>}

IsFailureType(detail) == includes(detail.type_url, FailureTypeNeedle)

\* the value of a detail of another type is some message of that type
OtherValues == {<<1>>}

ValuesOf(url) == IF includes(url, FailureTypeNeedle) THEN Buffers ELSE OtherValues

Details ==
  {[type_url |-> u, hasValue |-> FALSE, value |-> <<>>] : u \in TypeUrls}
  \cup UNION {{[type_url |-> u, hasValue |-> TRUE, value |-> b] : b \in ValuesOf(u)} :
               u \in TypeUrls}

PartialFailureErrors ==
  {[present |-> FALSE, hasDetails |-> FALSE, details |-> <<>>],
   [present |-> TRUE, hasDetails |-> FALSE, details |-> <<>>]}
  \cup {[present |-> TRUE, hasDetails |-> TRUE, details |-> ds] :
          ds \in SeqsUpTo(Details, MaxDetails)}

MutateResponses ==
  {[results |-> <<"customers/1/campaigns/7", "customers/1/campaigns/8">>,
    partial_failure_error |-> p] : p \in PartialFailureErrors}

\* response.partial_failure_error?.details
detailsOf(response) ==
  IF response.partial_failure_error.present /\ response.partial_failure_error.hasDetails
  THEN response.partial_failure_error.details
  ELSE <<>>

\* Array.prototype.find: the index of the first matching detail, 0 if none
findFailureDetail(details) ==
  IF \E i \in DOMAIN details : IsFailureType(details[i])
  THEN CHOOSE i \in DOMAIN details :
          /\ IsFailureType(details[i])
          /\ \A j \in DOMAIN details : IsFailureType(details[j]) => i <= j
  ELSE 0

\* Service.decodePartialFailureError
decodePartialFailureError_lastMatch(response) ==
  LET details == detailsOf(response)
      found == IF \E i \in DOMAIN details : IsFailureType(details[i])
               THEN CHOOSE i \in DOMAIN details :
                       /\ IsFailureType(details[i])
                       /\ \A j \in DOMAIN details : IsFailureType(details[j]) => j <= i
               ELSE 0
      hasBuffer == found # 0 /\ details[found].hasValue
      decodedError == decodeGoogleAdsFailureBuffer(details[found].value)
  IN IF ~hasBuffer
     THEN [threw |-> FALSE, value |-> [mutate_operation_responses |-> <<>>]]
     ELSE IF decodedError.threw
     THEN [threw |-> TRUE, value |-> [mutate_operation_responses |-> <<>>]]
     ELSE IF Len(decodedError.errors) > 0
     THEN [threw |-> FALSE,
           value |-> [mutate_operation_responses |-> <<[errors |-> decodedError.errors]>>]]
     ELSE [threw |-> FALSE, value |-> [mutate_operation_responses |-> <<>>]]

decodePartialFailureError(response) ==
  LET details == detailsOf(response)
      found == findFailureDetail(details)
      hasBuffer == found # 0 /\ details[found].hasValue
      decodedError == decodeGoogleAdsFailureBuffer(details[found].value)
  IN IF ~hasBuffer
     THEN [threw |-> FALSE, value |-> [mutate_operation_responses |-> <<>>]]
     ELSE IF decodedError.threw
     THEN [threw |-> TRUE, value |-> [mutate_operation_responses |-> <<>>]]
     ELSE IF Len(decodedError.errors) > 0
     THEN [threw |-> FALSE,
           value |-> [mutate_operation_responses |-> <<[errors |-> decodedError.errors]>>]]
     ELSE [threw |-> FALSE, value |-> [mutate_operation_responses |-> <<>>]]

----------------------------------------------------------------------------
(* Request builder *)

PolicyKeys == {"POLICY_X"}
OperationKinds == {"create", "update", "remove"}
EntityTypes == {"campaign", "adGroup"}

\* an optional exempt_policy_violation_keys field
NoKeys == [present |-> FALSE, keys |-> <<>>]
ExemptKeys == {NoKeys} \cup {[present |-> TRUE, keys |-> ks] : ks \in SeqsUpTo(PolicyKeys, MaxKeys)}

Entities == {[name |-> n, exempt_policy_violation_keys |-> x] :
               n \in {"", "Summer"}, x \in ExemptKeys}

NoMask == [present |-> FALSE, paths |-> {}]

\* getFieldMask of utils: the paths of the fields that differ from their default
getFieldMask(e) ==
  (IF e.name # "" THEN {"name"} ELSE {})
  \cup (IF e.exempt_policy_violation_keys.present
           /\ Len(e.exempt_policy_violation_keys.keys) > 0
        THEN {"exempt_policy_violation_keys"} ELSE {})

\* toSnakeCase of utils, on `${entity}Operation`
toSnakeCase(entity) ==
  IF entity = "adGroup" THEN "ad_group_operation" ELSE "campaign_operation"

\* the body of the map callback of Service.buildOperations
buildOperation(type, e) ==
  IF type = "create" /\ e.exempt_policy_violation_keys.present
     /\ Len(e.exempt_policy_violation_keys.keys) > 0
  THEN [operation |-> type, key |-> type,
        payload |-> [e EXCEPT !.exempt_policy_violation_keys = NoKeys],
        exempt_policy_violation_keys |-> e.exempt_policy_violation_keys,
        update_mask |-> NoMask]
  ELSE IF type = "update"
  THEN [operation |-> type, key |-> type, payload |-> e,
        exempt_policy_violation_keys |-> NoKeys,
        update_mask |-> [present |-> TRUE, paths |-> getFieldMask(e)]]
  ELSE [operation |-> type, key |-> type, payload |-> e,
        exempt_policy_violation_keys |-> NoKeys, update_mask |-> NoMask]

\* Service.buildOperations; an update without the message type throws
buildOperations(type, entities, hasMessage) ==
  IF type = "update" /\ ~hasMessage /\ Len(entities) > 0
  THEN [threw |-> TRUE, ops |-> <<>>]
  ELSE [threw |-> FALSE,
        ops |-> [i \in 1..Len(entities) |-> buildOperation(type, entities[i])]]

\* a MutateOperation as the caller supplies it; operation may be left out ("")
Mutations ==
  {[operation |-> o, resource |-> r, entity |-> t, exempt_policy_violation_keys |-> x] :
     o \in OperationKinds \cup {""}, r \in Entities, t \in EntityTypes, x \in ExemptKeys}

\* the body of the map callback of Service.buildMutationRequestAndService:
\* the object literal, whose trailing spread of the resource overrides the
\* properties of the same name, under the snake-case operation key
buildMutateOperation(mutation) ==
  [key |-> toSnakeCase(mutation.entity),
   operation |-> IF mutation.operation = "" THEN "create" ELSE mutation.operation,
   resource |-> mutation.resource,
   entity |-> mutation.entity,
   exempt_policy_violation_keys |->
      IF mutation.resource.exempt_policy_violation_keys.present
      THEN mutation.resource.exempt_policy_violation_keys
      ELSE mutation.exempt_policy_violation_keys,
   update_mask |-> IF mutation.operation = "update"
                   THEN [present |-> TRUE, paths |-> getFieldMask(mutation.resource)]
                   ELSE NoMask,
   name |-> mutation.resource.name]

----------------------------------------------------------------------------
(* The error translator and the request builder, applied to every input *)

InitPure ==
  /\ CacheIdle
  /\ ClientIdle
  /\ output = NoValue
  /\ \/ \E e \in TransportErrors : input = [fn |-> "getGoogleAdsError", error |-> e]
     \/ \E r \in MutateResponses :
           input = [fn |-> "decodePartialFailureError", response |-> r]
     \/ \E t \in OperationKinds, es \in SeqsUpTo(Entities, MaxEntities), m \in BOOLEAN :
           input = [fn |-> "buildOperations", type |-> t, entities |-> es,
                    hasMessage |-> m]
     \/ \E ms \in SeqsUpTo(Mutations, MaxMutations) :
           input = [fn |-> "buildMutationRequestAndService", mutations |-> ms]

GetGoogleAdsError ==
  /\ input.fn = "getGoogleAdsError"
  /\ output = NoValue
  /\ output' = [fn |-> input.fn, result |-> getGoogleAdsError(input.error)]
  /\ UNCHANGED <<input, cacheVars, clientVars>>

DecodePartialFailureError ==
  /\ input.fn = "decodePartialFailureError"
  /\ output = NoValue
  /\ output' = [fn |-> input.fn, result |-> decodePartialFailureError(input.response)]
  /\ UNCHANGED <<input, cacheVars, clientVars>>

BuildOperations ==
  /\ input.fn = "buildOperations"
  /\ output = NoValue
  /\ output' = [fn |-> input.fn,
                result |-> buildOperations(input.type, input.entities, input.hasMessage)]
  /\ UNCHANGED <<input, cacheVars, clientVars>>

\* called on Service instance s: the stub comes from loadService
BuildMutationRequestAndService(s) ==
  /\ input.fn = "buildMutationRequestAndService"
  /\ output = NoValue
  /\ LET r == loadService(s, "GoogleAdsServiceClient")
     IN /\ serviceCache' = r.cache
        /\ stubs' = r.stubs
        /\ lastLoad' = [by |-> s, name |-> "GoogleAdsServiceClient",
                        threw |-> r.threw, stub |-> r.stub, at |-> now,
                        closedAtReturn |-> r.stubs[r.stub].closeCalls > 0]
        /\ output' =
             [fn |-> input.fn,
              result |->
                [service |-> r.stub,
                 request |->
                   [customer_id |-> customerOptions[s].customer_id,
                    mutate_operations |->
                      [i \in 1..Len(input.mutations) |->
                         buildMutateOperation(input.mutations[i])]]]]
  /\ UNCHANGED <<input, now, calls, clientVars>>

NextPure ==
  \/ GetGoogleAdsError
  \/ DecodePartialFailureError
  \/ BuildOperations
  \/ \E s \in Instances : BuildMutationRequestAndService(s)

SpecPure == InitPure /\ [][NextPure]_vars

----------------------------------------------------------------------------
(* Properties of the error translator *)

Done(fn) == output # NoValue /\ output.fn = fn

\* C4: the result of decodePartialFailureError is the mutate response with a
\* mutate_operation_responses field added: every field of the response is
\* still present in the result, unchanged.
C4_ResponseFieldsPreserved ==
  (Done("decodePartialFailureError") /\ ~output.result.threw) =>
     /\ "mutate_operation_responses" \in DOMAIN output.result.value
     /\ \A f \in DOMAIN input.response :
           /\ f \in DOMAIN output.result.value
           /\ output.result.value[f] = input.response[f]

\* C5: an error that carries no failure metadata under FAILURE_KEY (no
\* metadata, metadata without internalRepr, or metadata lacking the key) is
\* returned unchanged, and nothing is thrown.
C5_ErrorWithoutFailurePassedThrough ==
  (Done("getGoogleAdsError")
     /\ ~(input.error.metadata.present /\ input.error.metadata.hasInternalRepr
          /\ FAILURE_KEY \in input.error.metadata.keys))
  => /\ output.result.kind = "returned_error"
     /\ output.result.error = input.error

ErrorLists == SeqsUpTo(SubErrors, MaxBufLen)

CarriesErrors(detail, errs) ==
  IsFailureType(detail) /\ detail.hasValue /\ detail.value = EncodeFailure(errs)

\* C6 as stated: mutate_operation_responses has one entry, holding the k >= 1
\* sub-errors in order, when the details contain an entry of the failure type
\* with k sub-errors (here: every entry of the failure type is well encoded,
\* and the entry returned is one of those with sub-errors), and it is empty
\* when no entry is of the failure type.
C6_AnyFailureEntryDecoded ==
  Done("decodePartialFailureError") =>
     LET details == detailsOf(input.response)
         mor == output.result.value.mutate_operation_responses
     IN /\ ((\A i \in DOMAIN details : ~IsFailureType(details[i]))
              => ~output.result.threw /\ mor = <<>>)
        /\ ((/\ \A i \in DOMAIN details : IsFailureType(details[i]) =>
                   \E errs \in ErrorLists : CarriesErrors(details[i], errs)
             /\ \E i \in DOMAIN details : \E errs \in ErrorLists :
                   Len(errs) >= 1 /\ CarriesErrors(details[i], errs))
              => /\ ~output.result.threw
                 /\ Len(mor) = 1
                 /\ \E i \in DOMAIN details : \E errs \in ErrorLists :
                       /\ Len(errs) >= 1
                       /\ CarriesErrors(details[i], errs)
                       /\ mor[1].errors = errs)

\* C6 amended: the first entry of the failure type decides.  With k >= 1
\* sub-errors it yields one entry holding exactly these k sub-errors in
\* order; the list is empty when no entry is of the failure type, and when
\* the first such entry has no value or no sub-error.
C6_FirstFailureEntryDecoded ==
  Done("decodePartialFailureError") =>
     LET details == detailsOf(input.response)
         first == findFailureDetail(details)
         mor == output.result.value.mutate_operation_responses
     IN /\ ((\A i \in DOMAIN details : ~IsFailureType(details[i]))
              => ~output.result.threw /\ mor = <<>>)
        /\ \A i \in DOMAIN details :
             (IsFailureType(details[i])
                /\ \A j \in 1..(i - 1) : ~IsFailureType(details[j]))
             => /\ ~details[i].hasValue => (~output.result.threw /\ mor = <<>>)
                /\ \A errs \in ErrorLists :
                     CarriesErrors(details[i], errs)
                       => /\ ~output.result.threw
                          /\ mor = IF Len(errs) >= 1 THEN <<[errors |-> errs]>> ELSE <<>>

C6_Witness ==
  /\ Done("decodePartialFailureError")
  /\ Len(detailsOf(input.response)) = 2
  /\ ~IsFailureType(detailsOf(input.response)[1])
  /\ CarriesErrors(detailsOf(input.response)[2], <<ErrorOf(2), ErrorOf(1)>>)
  /\ Len(output.result.value.mutate_operation_responses) = 1
  /\ Len(output.result.value.mutate_operation_responses[1].errors) = 2

----------------------------------------------------------------------------
(* Properties of the request builder *)

HasKeys(x) == x.present /\ Len(x.keys) > 0

\* C8: exemption keys are on the operation envelope only for a "create"
\* whose entity carries a non-empty key list, and then they are on the
\* envelope and not in the entity payload; no keys on the envelope of an
\* "update" or "remove".  For buildOperations and for
\* buildMutationRequestAndService.
C8_ExemptionKeysOnlyOnCreate ==
  /\ (Done("buildOperations") /\ ~output.result.threw) =>
        \A i \in DOMAIN output.result.ops :
           LET op == output.result.ops[i]
               e == input.entities[i]
           IN /\ HasKeys(op.exempt_policy_violation_keys)
                   <=> (input.type = "create" /\ HasKeys(e.exempt_policy_violation_keys))
              /\ HasKeys(op.exempt_policy_violation_keys)
                   => /\ op.exempt_policy_violation_keys = e.exempt_policy_violation_keys
                      /\ ~op.payload.exempt_policy_violation_keys.present
  /\ Done("buildMutationRequestAndService") =>
        \A i \in DOMAIN output.result.request.mutate_operations :
           LET op == output.result.request.mutate_operations[i]
               m == input.mutations[i]
               carried == HasKeys(m.exempt_policy_violation_keys)
                          \/ HasKeys(m.resource.exempt_policy_violation_keys)
           IN /\ HasKeys(op.exempt_policy_violation_keys)
                   <=> (op.operation = "create" /\ carried)
              /\ HasKeys(op.exempt_policy_violation_keys)
                   => ~op.resource.exempt_policy_violation_keys.present

====
